---- MODULE Spec2Model ----
(***************************************************************************)
(* State-machine model of the Person/Address/Course demo API (main.py,     *)
(* models/course.py).  The three module-level dicts of main.py are the     *)
(* state; every request handler is an operator from (store, request) to    *)
(* (store, response) and one action of the next-state relation.            *)
(*                                                                         *)
(* Conventions.                                                            *)
(*   - A Python value that may be None is written None or Some(v).         *)
(*   - A Python dict used as a store is a sequence of <<key, value>>       *)
(*     entries in insertion order (dicts keep insertion order).            *)
(*   - A pydantic object / dumped dict is a function from field names.     *)
(*   - Strings that the code inspects character by character (course code, *)
(*     title, instructor, department, formatted dates) are sequences of    *)
(*     one-character strings; all other strings are opaque.                *)
(*   - uuid4() returns an identifier never issued before: a collision of   *)
(*     two random 122-bit values is taken to be impossible.                *)
(*   - datetime.utcnow() reads a clock that never goes backwards.          *)
(***************************************************************************)
EXTENDS Integers, Sequences, FiniteSets, TLC

\* ------------------------------------------------------------------ bounds
\* Client-chosen address identifiers are 1..MaxAddrId.
MaxAddrId == 2
\* uuid4() draws from 1..MaxUuid (per store).
MaxUuid == 2
\* The clock takes the values 0..MaxTime.
MaxTime == 1
\* At most MaxWrites requests that change a store are handled in a run.
MaxWrites == 3
\* Worker threads of the thread pool that runs the handlers (SpecConc).
NThreads == 2
\* Requests handled in a concurrent run (SpecConc).
MaxConcRequests == 3

VARIABLES
    addresses,      \* main.py: addresses: Dict[UUID, AddressRead]
    persons,        \* main.py: persons:   Dict[UUID, PersonRead]
    courses,        \* main.py: courses:   Dict[UUID, CourseRead]
    now,            \* the clock datetime.utcnow() reads
    issued,         \* issued[s]: the identifiers uuid4() has returned for store s
    nwrites,        \* number of store-changing requests handled so far
    resp,           \* the last request handled and its response
    resource,       \* the resource (store) the run's client sends requests to
    threads,        \* threads[w]: what worker thread w is doing (SpecConc)
    log             \* the requests answered so far, with their responses (SpecConc)

vars == <<addresses, persons, courses, now, issued, nwrites, resp, resource, threads, log>>

\* ------------------------------------------------------------ Python values
None == <<>>
Some(v) == <<v>>
IsNone(x) == x = None
Unwrap(x) == x[1]

\* dict.update on dumped models: keys of the patch overwrite, the rest stay.
dict_update(stored, patch) ==
    [f \in (DOMAIN stored) \cup (DOMAIN patch) |->
        IF f \in DOMAIN patch THEN patch[f] ELSE stored[f]]

\* The empty dict.
EmptyDict == [f \in {} |-> None]

\* A dict restricted to the keys in fs (pydantic drops unknown keys).
Restrict(d, fs) == [f \in (DOMAIN d) \cap fs |-> d[f]]

\* ---------------------------------------------------- insertion-ordered dict
Keys(d) == {d[i][1] : i \in 1..Len(d)}
Has(d, k) == k \in Keys(d)
Get(d, k) == d[CHOOSE i \in 1..Len(d) : d[i][1] = k][2]
Put(d, k, v) ==
    IF Has(d, k)
    THEN [i \in 1..Len(d) |-> IF d[i][1] = k THEN <<k, v>> ELSE d[i]]
    ELSE Append(d, <<k, v>>)
Del(d, k) == SelectSeq(d, LAMBDA e : e[1] # k)
Values(d) == [i \in 1..Len(d) |-> d[i][2]]

\* ------------------------------------------------------------------ strings
UpperSeq ==
    <<"A", "B", "C", "D", "E", "F", "G", "H", "I", "J", "K", "L", "M",
      "N", "O", "P", "Q", "R", "S", "T", "U", "V", "W", "X", "Y", "Z">>
LowerSeq ==
    <<"a", "b", "c", "d", "e", "f", "g", "h", "i", "j", "k", "l", "m",
      "n", "o", "p", "q", "r", "s", "t", "u", "v", "w", "x", "y", "z">>
DigitSeq == <<"0", "1", "2", "3", "4", "5", "6", "7", "8", "9">>
Upper == {UpperSeq[i] : i \in 1..Len(UpperSeq)}
Digit == {DigitSeq[i] : i \in 1..Len(DigitSeq)}

\* str.lower(), character by character.
lowerChar(c) ==
    IF c \in Upper
    THEN LowerSeq[CHOOSE i \in 1..Len(UpperSeq) : UpperSeq[i] = c]
    ELSE c
lower(s) == [i \in 1..Len(s) |-> lowerChar(s[i])]

\* Python's `sub in s` on strings.
Contains(sub, s) ==
    \E i \in 0..(Len(s) - Len(sub)) :
        \A j \in 1..Len(sub) : s[i + j] = sub[j]

\* A response: HTTP status and body (a sequence of records; one for a single
\* record, none for an error or a 204).
Response(store, status, body) == [store |-> store, status |-> status, body |-> body]

\* Identifiers: the UUIDs clients put in request paths and bodies.
AddressIds == 1..MaxAddrId
PersonIds == 1..MaxUuid
CourseIds == 1..MaxUuid

\* ---------------------------------------------------------------- requests
\* What an action leaves in resp: the request and the response to it.
Reply(op, id, req, r) ==
    [op |-> op, id |-> id, req |-> req, status |-> r.status, body |-> r.body]

\* FastAPI's answer to a body that fails the request schema: the handler is
\* not called.
Unprocessable(store) == Response(store, 422, <<>>)

\* An uncaught exception inside a handler (pydantic ValidationError, KeyError):
\* the assignment it interrupted has not happened.
ServerError(store) == Response(store, 500, <<>>)

\* ================================================================ Address
AddressUpdateFields == {"street", "city", "state", "postal_code", "country"}
AddressBaseFields == {"id"} \cup AddressUpdateFields

\* AddressCreate / AddressRead: every Base field present and not None.
AddressBase_valid(d) ==
    \A f \in AddressBaseFields : f \in DOMAIN d /\ ~IsNone(d[f])

\* AddressUpdate: every field optional, None allowed.
AddressUpdate_valid(d) == TRUE

\* model_dump() of a validated AddressCreate / AddressRead.
Address_model_dump(d) == Restrict(d, AddressBaseFields)

\* update.model_dump(exclude_unset=True): the fields the request supplied.
AddressUpdate_model_dump(d) == Restrict(d, AddressUpdateFields)


\* Mutant: no existence check before the insert.
create_address_overwrites(store, address) ==
    LET id == Unwrap(address["id"])
        new == Put(store, id, Address_model_dump(address))
    IN Response(new, 201, <<Get(new, id)>>)

create_address(store, address) ==
    LET id == Unwrap(address["id"]) IN
    IF Has(store, id)
    THEN Response(store, 400, <<>>)
    ELSE LET new == Put(store, id, Address_model_dump(address))
         IN Response(new, 201, <<Get(new, id)>>)

\* One `if q is not None: results = [a for a in results if a.f == q]` step.
address_filter(results, q, f) ==
    IF IsNone(q[f]) THEN results
    ELSE SelectSeq(results, LAMBDA a : a[f] = q[f])


\* Mutant: the country filter starts again from all the stored addresses.
list_addresses_restarts(store, q) ==
    LET r0 == Values(store)
        r1 == address_filter(r0, q, "street")
        r2 == address_filter(r1, q, "city")
        r3 == address_filter(r2, q, "state")
        r4 == address_filter(r3, q, "postal_code")
        r5 == IF IsNone(q["country"]) THEN r4 ELSE address_filter(r0, q, "country")
    IN Response(store, 200, r5)

list_addresses(store, q) ==
    LET r0 == Values(store)
        r1 == address_filter(r0, q, "street")
        r2 == address_filter(r1, q, "city")
        r3 == address_filter(r2, q, "state")
        r4 == address_filter(r3, q, "postal_code")
        r5 == address_filter(r4, q, "country")
    IN Response(store, 200, r5)

get_address(store, address_id) ==
    IF ~Has(store, address_id)
    THEN Response(store, 404, <<>>)
    ELSE Response(store, 200, <<Get(store, address_id)>>)

update_address(store, address_id, update) ==
    IF ~Has(store, address_id)
    THEN Response(store, 404, <<>>)
    ELSE LET stored == dict_update(Get(store, address_id),
                                   AddressUpdate_model_dump(update))
         IN IF ~AddressBase_valid(stored)
            THEN ServerError(store)
            ELSE LET new == Put(store, address_id, Address_model_dump(stored))
                 IN Response(new, 200, <<Get(new, address_id)>>)

\* ---- inputs of the address requests
addrBoston ==
    [street |-> Some("1 Main St"), city |-> Some("Boston"), state |-> Some("MA"),
     postal_code |-> Some("02101"), country |-> Some("USA")]
addrParis ==
    [street |-> Some("2 Rue Cler"), city |-> Some("Paris"), state |-> Some("IDF"),
     postal_code |-> Some("75007"), country |-> Some("France")]
addrNewYork ==
    [street |-> Some("1 Main St"), city |-> Some("New York"), state |-> Some("NY"),
     postal_code |-> Some("10001"), country |-> Some("USA")]

AddressCreateInputs ==
    {dict_update(a, [id |-> Some(i)]) : i \in AddressIds, a \in {addrBoston, addrParis}}
    \cup {addrBoston}                                   \* no id: fails the schema

AddressUpdateInputs ==
    { EmptyDict,
      [city |-> Some("New York")],
      [street |-> Some("9 Elm St"), state |-> Some("NY"),
       postal_code |-> Some("10001"), country |-> Some("USA")],
      [city |-> None] }

NoAddressFilter ==
    [street |-> None, city |-> None, state |-> None, postal_code |-> None,
     country |-> None]

AddressQueries ==
    { NoAddressFilter,
      [NoAddressFilter EXCEPT !["city"] = Some("Boston")],
      [NoAddressFilter EXCEPT !["country"] = Some("USA")],
      [NoAddressFilter EXCEPT !["street"] = Some("1 Main St")],
      [NoAddressFilter EXCEPT !["city"] = Some("New York"), !["state"] = Some("NY")],
      [NoAddressFilter EXCEPT !["postal_code"] = Some("10001")] }

\* ================================================================= Person
PersonUpdateFields ==
    {"uni", "first_name", "last_name", "email", "phone", "birth_date", "addresses"}
PersonRequired == {"uni", "first_name", "last_name", "email", "addresses"}
PersonReadFields == {"id"} \cup PersonUpdateFields

\* PersonCreate: the required Base fields present and not None.
PersonCreate_valid(d) ==
    \A f \in PersonRequired : f \in DOMAIN d /\ ~IsNone(d[f])

\* model_dump() of a validated PersonCreate: optional fields default to None.
PersonCreate_model_dump(d) ==
    dict_update([phone |-> None, birth_date |-> None], Restrict(d, PersonUpdateFields))

\* PersonRead(**d): the Base constraints, and an id (uuid4 when not given).
PersonRead_valid(d) == PersonCreate_valid(d)

PersonUpdate_valid(d) == TRUE
PersonUpdate_model_dump(d) == Restrict(d, PersonUpdateFields)

\* str(n) padded with zeros to w digits (date.__str__ is ISO 8601).
RECURSIVE Pad(_, _)
Pad(n, w) == IF w = 0 THEN <<>> ELSE Append(Pad(n \div 10, w - 1), DigitSeq[(n % 10) + 1])

\* str(p.birth_date): "YYYY-MM-DD" for a date, "None" for None.
str_birth_date(b) ==
    IF IsNone(b) THEN <<"N", "o", "n", "e">>
    ELSE LET d == Unwrap(b)
         IN Pad(d[1], 4) \o <<"-">> \o Pad(d[2], 2) \o <<"-">> \o Pad(d[3], 2)

create_person(store, person, id) ==
    LET person_read == dict_update(PersonCreate_model_dump(person), [id |-> Some(id)])
        new == Put(store, id, person_read)
    IN Response(new, 201, <<person_read>>)

person_filter(results, q, f) ==
    IF IsNone(q[f]) THEN results
    ELSE SelectSeq(results, LAMBDA x : x[f] = q[f])


\* Mutant: only the first embedded address is looked at.
first_address(x, q, f) ==
    LET as == Unwrap(x["addresses"])
    IN Len(as) > 0 /\ as[1][f] = q[f]

\* any(addr.f == q.f for addr in p.addresses)
any_address(x, q, f) ==
    LET as == Unwrap(x["addresses"])
    IN \E i \in 1..Len(as) : as[i][f] = q[f]

person_address_filter(results, q, f) ==
    IF IsNone(q[f]) THEN results
    ELSE SelectSeq(results, LAMBDA x : any_address(x, q, f))

list_persons(store, q) ==
    LET r0 == Values(store)
        r1 == person_filter(r0, q, "uni")
        r2 == person_filter(r1, q, "first_name")
        r3 == person_filter(r2, q, "last_name")
        r4 == person_filter(r3, q, "email")
        r5 == person_filter(r4, q, "phone")
        r6 == IF IsNone(q["birth_date"]) THEN r5
              ELSE SelectSeq(r5, LAMBDA x :
                       str_birth_date(x["birth_date"]) = Unwrap(q["birth_date"]))
        r7 == person_address_filter(r6, q, "city")
        r8 == person_address_filter(r7, q, "country")
    IN Response(store, 200, r8)

get_person(store, person_id) ==
    IF ~Has(store, person_id)
    THEN Response(store, 404, <<>>)
    ELSE Response(store, 200, <<Get(store, person_id)>>)

update_person(store, person_id, update) ==
    IF ~Has(store, person_id)
    THEN Response(store, 404, <<>>)
    ELSE LET stored == dict_update(Get(store, person_id),
                                   PersonUpdate_model_dump(update))
         IN IF ~PersonRead_valid(stored)
            THEN ServerError(store)
            ELSE LET new == Put(store, person_id, Restrict(stored, PersonReadFields))
                 IN Response(new, 200, <<Get(new, person_id)>>)

\* ---- inputs of the person requests
personAlice ==
    [uni |-> Some("abc1234"), first_name |-> Some("Alice"), last_name |-> Some("Ng"),
     email |-> Some("alice@example.com"), phone |-> Some("555-0100"),
     birth_date |-> Some(<<2000, 1, 5>>),
     addresses |-> Some(<<addrParis, addrBoston>>)]
personBob ==
    [uni |-> Some("xy42"), first_name |-> Some("Bob"), last_name |-> Some("Ng"),
     email |-> Some("bob@example.com"), addresses |-> Some(<<>>)]

PersonCreateInputs ==
    { personAlice, personBob,
      [uni |-> Some("xy42"), first_name |-> Some("Bob")] }   \* fails the schema

PersonUpdateInputs ==
    { EmptyDict,
      [addresses |-> Some(<<addrNewYork>>)],
      [uni |-> Some("zz9"), first_name |-> Some("Carol"), last_name |-> Some("Diaz"),
       email |-> Some("carol@example.com"), phone |-> None,
       birth_date |-> Some(<<1999, 12, 31>>)],
      [email |-> None] }

NoPersonFilter ==
    [uni |-> None, first_name |-> None, last_name |-> None, email |-> None,
     phone |-> None, birth_date |-> None, city |-> None, country |-> None]

PersonQueries ==
    { NoPersonFilter,
      [NoPersonFilter EXCEPT !["city"] = Some("Boston")],
      [NoPersonFilter EXCEPT !["country"] = Some("USA")],
      [NoPersonFilter EXCEPT !["last_name"] = Some("Ng")],
      [NoPersonFilter EXCEPT !["city"] = Some("New York"), !["uni"] = Some("abc1234")],
      [NoPersonFilter EXCEPT !["birth_date"] =
          Some(<<"2", "0", "0", "0", "-", "0", "1", "-", "0", "5">>)] }

\* ================================================================= Course
CourseLevel == {"undergraduate", "graduate", "doctoral"}
CourseTerm == {"spring", "summer", "fall"}

CourseUpdateFields ==
    {"code", "title", "description", "credits", "instructor", "department",
     "level", "term", "year", "max_enrollment", "prerequisites",
     "meeting_times", "location"}
CourseRequired ==
    {"code", "title", "description", "credits", "instructor", "department",
     "level", "term", "year"}
CourseReadFields == {"id", "created_at", "updated_at"} \cup CourseUpdateFields

\* CourseCodeType: ^[A-Z]{2,4}\d{4}$
CourseCodeType(s) ==
    \E n \in 2..4 :
        /\ Len(s) = n + 4
        /\ \A i \in 1..n : s[i] \in Upper
        /\ \A i \in (n + 1)..(n + 4) : s[i] \in Digit

\* Mutant: the upper bound of credits off by one (le=7).
CourseField_ok_le7(f, v) ==
    CASE f = "code" -> CourseCodeType(v)
      [] f = "credits" -> v >= 0 /\ v <= 7
      [] f = "level" -> v \in CourseLevel
      [] f = "term" -> v \in CourseTerm
      [] f = "year" -> v >= 2020 /\ v <= 2030
      [] f = "max_enrollment" -> v >= 1
      [] OTHER -> TRUE

\* The constraint a field's annotation puts on a value that is not None.
CourseField_ok(f, v) ==
    CASE f = "code" -> CourseCodeType(v)
      [] f = "credits" -> v >= 0 /\ v <= 6
      [] f = "level" -> v \in CourseLevel
      [] f = "term" -> v \in CourseTerm
      [] f = "year" -> v >= 2020 /\ v <= 2030
      [] f = "max_enrollment" -> v >= 1
      [] OTHER -> TRUE

\* Fields of CourseBase whose annotation admits None.
CourseNullable == {"max_enrollment", "meeting_times", "location"}

\* CourseBase: required fields present; every present field within its
\* annotation.
CourseBase_valid(d) ==
    /\ \A f \in CourseRequired : f \in DOMAIN d
    /\ \A f \in (DOMAIN d) \cap CourseUpdateFields :
          IF IsNone(d[f]) THEN f \in CourseNullable
          ELSE CourseField_ok(f, Unwrap(d[f]))

\* CourseUpdate: every field Optional, the same constraints when not None.
CourseUpdate_valid(d) ==
    \A f \in (DOMAIN d) \cap CourseUpdateFields :
        IsNone(d[f]) \/ CourseField_ok(f, Unwrap(d[f]))

\* model_dump() of a validated CourseCreate: all Base fields, defaults filled.
CourseCreate_model_dump(d) ==
    dict_update([max_enrollment |-> None, prerequisites |-> Some(<<>>),
                 meeting_times |-> None, location |-> None],
                Restrict(d, CourseUpdateFields))


\* Mutant: exclude_none=True in place of exclude_unset=True.
CourseUpdate_model_dump_exclude_none(d) ==
    LET fs == {f \in (DOMAIN d) \cap CourseUpdateFields : ~IsNone(d[f])}
    IN [f \in fs |-> d[f]]

\* update.model_dump(exclude_unset=True)
CourseUpdate_model_dump(d) == Restrict(d, CourseUpdateFields)

\* CourseRead(**d) with id, created_at and updated_at given.
CourseRead_valid(d) ==
    /\ CourseBase_valid(d)
    /\ \A f \in {"id", "created_at", "updated_at"} : f \in DOMAIN d /\ ~IsNone(d[f])


\* Mutant: an identifier that is not a key of the store now (a deleted
\* record's identifier is handed out again).
uuid4_unused(s) ==
    LET used == IF s = "courses" THEN Keys(courses) ELSE Keys(persons)
        free == (1..MaxUuid) \ used
    IN {i \in free : \A j \in free : i <= j}

\* uuid4() for store s: an identifier it has not returned before.  The code
\* only stores identifiers and compares them for equality, so the least such
\* identifier stands for whichever one is drawn.
uuid4(s) ==
    LET fresh == (1..MaxUuid) \ issued[s]
    IN {i \in fresh : \A j \in fresh : i <= j}

\* t1, t2: what the two default_factory calls of datetime.utcnow() return.
create_course(store, course, id, t1, t2) ==
    LET course_read ==
            dict_update(CourseCreate_model_dump(course),
                        [id |-> Some(id), created_at |-> Some(t1),
                         updated_at |-> Some(t2)])
        new == Put(store, id, course_read)
    IN Response(new, 201, <<course_read>>)

course_exact(results, q, f) ==
    IF IsNone(q[f]) THEN results
    ELSE SelectSeq(results, LAMBDA c : c[f] = q[f])

\* q.f.lower() in c.f.lower()
course_substring(results, q, f) ==
    IF IsNone(q[f]) THEN results
    ELSE SelectSeq(results,
             LAMBDA c : Contains(lower(Unwrap(q[f])), lower(Unwrap(c[f]))))

list_courses(store, q) ==
    LET r0 == Values(store)
        r1 == course_exact(r0, q, "code")
        r2 == course_substring(r1, q, "title")
        r3 == course_substring(r2, q, "instructor")
        r4 == course_substring(r3, q, "department")
        r5 == course_exact(r4, q, "level")
        r6 == course_exact(r5, q, "term")
        r7 == course_exact(r6, q, "year")
    IN Response(store, 200, r7)

get_course(store, course_id) ==
    IF ~Has(store, course_id)
    THEN Response(store, 404, <<>>)
    ELSE Response(store, 200, <<Get(store, course_id)>>)


\* Mutant: updated_at is stamped and the record rewritten also when the patch
\* is empty.
update_course_always_stamps(store, course_id, update, t) ==
    IF ~Has(store, course_id)
    THEN Response(store, 404, <<>>)
    ELSE LET merged == dict_update(dict_update(Get(store, course_id),
                                               CourseUpdate_model_dump(update)),
                                   [updated_at |-> Some(t)])
         IN IF ~CourseRead_valid(merged)
            THEN ServerError(store)
            ELSE LET new == Put(store, course_id, Restrict(merged, CourseReadFields))
                 IN Response(new, 200, <<Get(new, course_id)>>)

\* t: what datetime.utcnow() returns.
update_course(store, course_id, update, t) ==
    IF ~Has(store, course_id)
    THEN Response(store, 404, <<>>)
    ELSE LET stored == Get(store, course_id)
             update_data == CourseUpdate_model_dump(update)
         IN IF DOMAIN update_data # {}
            THEN LET merged == dict_update(dict_update(stored, update_data),
                                           [updated_at |-> Some(t)])
                 IN IF ~CourseRead_valid(merged)
                    THEN ServerError(store)
                    ELSE LET new == Put(store, course_id,
                                        Restrict(merged, CourseReadFields))
                         IN Response(new, 200, <<Get(new, course_id)>>)
            ELSE Response(store, 200, <<Get(store, course_id)>>)


\* Mutant: courses.clear() in place of del courses[course_id].
delete_course_clears(store, course_id) ==
    IF ~Has(store, course_id)
    THEN Response(store, 404, <<>>)
    ELSE Response(<<>>, 204, <<>>)

\* Mutant: courses.pop(course_id, None) with no existence check.
delete_course_pops(store, course_id) ==
    Response(Del(store, course_id), 204, <<>>)

delete_course(store, course_id) ==
    IF ~Has(store, course_id)
    THEN Response(store, 404, <<>>)
    ELSE Response(Del(store, course_id), 204, <<>>)

\* ---- inputs of the course requests
courseCloud ==
    [code |-> Some(<<"C", "O", "M", "S", "4", "1", "5", "3">>),
     title |-> Some(<<"C", "l", "o", "u", "d">>),
     description |-> Some("Introduction to cloud computing."),
     credits |-> Some(3),
     instructor |-> Some(<<"S", "m", "i", "t", "h">>),
     department |-> Some(<<"C", "S">>),
     level |-> Some("graduate"), term |-> Some("fall"), year |-> Some(2025),
     max_enrollment |-> Some(50),
     prerequisites |-> Some(<<"COMS3157", "COMS3261">>),
     meeting_times |-> Some("MW 10:10"), location |-> Some("Mudd 633")]
courseData ==
    [code |-> Some(<<"A", "B", "1", "2", "3", "4">>),
     title |-> Some(<<"D", "a", "t", "a", " ", "C", "l", "u", "b">>),
     description |-> Some("Data."),
     credits |-> Some(0),
     instructor |-> Some(<<"D", "o", "e">>),
     department |-> Some(<<"c", "s">>),
     level |-> Some("undergraduate"), term |-> Some("fall"), year |-> Some(2020)]

CourseCreateInputs ==
    { courseCloud, courseData,
      [courseCloud EXCEPT !["credits"] = Some(7)],                   \* le=6
      [courseData EXCEPT !["code"] = Some(<<"C", "S", "1", "2", "3">>)],  \* pattern
      [courseData EXCEPT !["year"] = Some(2019)],                    \* ge=2020
      [courseData EXCEPT !["level"] = Some("postdoctoral")],         \* enum
      [courseCloud EXCEPT !["max_enrollment"] = Some(0)],            \* ge=1
      [courseCloud EXCEPT !["term"] = None],                         \* not Optional
      Restrict(courseData, CourseRequired \ {"title"}) }             \* required

CourseUpdateInputs ==
    { EmptyDict,
      [nickname |-> Some("x")],
      [title |-> Some(<<"C", "L", "O", "U", "D", "S">>)],
      [credits |-> Some(6), prerequisites |-> Some(<<>>)],
      [max_enrollment |-> None],
      [code |-> Some(<<"E", "E", "C", "S", "6", "0", "0", "1">>),
       description |-> Some("Updated."), instructor |-> Some(<<"L", "e", "e">>),
       department |-> Some(<<"E", "E">>), level |-> Some("doctoral"),
       term |-> Some("spring"), year |-> Some(2030),
       meeting_times |-> None, location |-> Some("Pupin 301")],
      [title |-> None],
      [credits |-> None],
      [prerequisites |-> None],
      [year |-> Some(2031)],
      [credits |-> Some(-1)],
      [term |-> Some("winter"), location |-> Some("Pupin 301")],
      [max_enrollment |-> Some(0)] }

NoCourseFilter ==
    [code |-> None, title |-> None, instructor |-> None, department |-> None,
     level |-> None, term |-> None, year |-> None]

CourseQueries ==
    { NoCourseFilter,
      [NoCourseFilter EXCEPT !["title"] = Some(<<"c", "l", "U">>)],
      [NoCourseFilter EXCEPT !["department"] = Some(<<"C", "s">>)],
      [NoCourseFilter EXCEPT !["term"] = Some("fall")],
      [NoCourseFilter EXCEPT !["year"] = Some(2025), !["level"] = Some("graduate")],
      [NoCourseFilter EXCEPT !["code"] = Some(<<"A", "B", "1", "2", "3", "4">>),
                             !["instructor"] = Some(<<"O">>)] }

\* ================================================================ actions
\* One action per request handler.  resource is the store the run's client
\* works with: no handler reads or writes the dict of another resource, so
\* runs are explored one resource at a time.  resp keeps the last request
\* that changed a store and the response to it; a request that changes
\* nothing (a read, an error, an empty patch) leaves the whole state as it is,
\* and its response is the value of the handler operator in that state.

\* A request that changes a store is counted against MaxWrites.
Handled(op, id, req, r, store) ==
    IF r.store = store
    THEN UNCHANGED <<nwrites, resp>>
    ELSE /\ nwrites < MaxWrites
         /\ nwrites' = nwrites + 1
         /\ resp' = Reply(op, id, req, r)


CreateAddress ==
    /\ resource = "addresses"
    /\ \E p \in AddressCreateInputs :
        LET r == IF AddressBase_valid(p)
                 THEN create_address(addresses, p)
                 ELSE Unprocessable(addresses)
            id == IF "id" \in DOMAIN p THEN Unwrap(p["id"]) ELSE 0
        IN /\ addresses' = r.store
           /\ Handled("create_address", id, p, r, addresses)
           /\ UNCHANGED <<persons, courses, now, issued, resource, threads, log>>

ListAddresses ==
    /\ resource = "addresses"
    /\ \E q \in AddressQueries :
        LET r == list_addresses(addresses, q)
        IN /\ addresses' = r.store
           /\ Handled("list_addresses", 0, q, r, addresses)
           /\ UNCHANGED <<persons, courses, now, issued, resource, threads, log>>

GetAddress ==
    /\ resource = "addresses"
    /\ \E id \in AddressIds :
        LET r == get_address(addresses, id)
        IN /\ addresses' = r.store
           /\ Handled("get_address", id, EmptyDict, r, addresses)
           /\ UNCHANGED <<persons, courses, now, issued, resource, threads, log>>

UpdateAddress ==
    /\ resource = "addresses"
    /\ \E id \in AddressIds, u \in AddressUpdateInputs :
        LET r == IF AddressUpdate_valid(u)
                 THEN update_address(addresses, id, u)
                 ELSE Unprocessable(addresses)
        IN /\ addresses' = r.store
           /\ Handled("update_address", id, u, r, addresses)
           /\ UNCHANGED <<persons, courses, now, issued, resource, threads, log>>

\* id: what uuid4() returns for PersonRead's default factory.
CreatePerson ==
    /\ resource = "persons"
    /\ \E p \in PersonCreateInputs :
        IF PersonCreate_valid(p)
        THEN \E id \in uuid4("persons") :
                LET r == create_person(persons, p, id)
                IN /\ persons' = r.store
                   /\ issued' = [issued EXCEPT !["persons"] = @ \cup {id}]
                   /\ Handled("create_person", id, p, r, persons)
                   /\ UNCHANGED <<addresses, courses, now, resource, threads, log>>
        ELSE UNCHANGED vars

ListPersons ==
    /\ resource = "persons"
    /\ \E q \in PersonQueries :
        LET r == list_persons(persons, q)
        IN /\ persons' = r.store
           /\ Handled("list_persons", 0, q, r, persons)
           /\ UNCHANGED <<addresses, courses, now, issued, resource, threads, log>>

GetPerson ==
    /\ resource = "persons"
    /\ \E id \in PersonIds :
        LET r == get_person(persons, id)
        IN /\ persons' = r.store
           /\ Handled("get_person", id, EmptyDict, r, persons)
           /\ UNCHANGED <<addresses, courses, now, issued, resource, threads, log>>

UpdatePerson ==
    /\ resource = "persons"
    /\ \E id \in PersonIds, u \in PersonUpdateInputs :
        LET r == IF PersonUpdate_valid(u)
                 THEN update_person(persons, id, u)
                 ELSE Unprocessable(persons)
        IN /\ persons' = r.store
           /\ Handled("update_person", id, u, r, persons)
           /\ UNCHANGED <<addresses, courses, now, issued, resource, threads, log>>

ListCourses ==
    /\ resource = "courses"
    /\ \E q \in CourseQueries :
        LET r == list_courses(courses, q)
        IN /\ courses' = r.store
           /\ Handled("list_courses", 0, q, r, courses)
           /\ UNCHANGED <<addresses, persons, now, issued, resource, threads, log>>

\* id: what uuid4() returns; t1, t2: what the two utcnow() calls of CourseRead's
\* default factories return (the clock may have advanced since it was last
\* read, and between the two calls).
CreateCourse ==
    /\ resource = "courses"
    /\ \E p \in CourseCreateInputs :
        IF CourseBase_valid(p)
        THEN \E id \in uuid4("courses"), t1 \in now..MaxTime :
             \E t2 \in t1..MaxTime :
                LET r == create_course(courses, p, id, t1, t2)
                IN /\ courses' = r.store
                   /\ now' = t2
                   /\ issued' = [issued EXCEPT !["courses"] = @ \cup {id}]
                   /\ Handled("create_course", id, p, r, courses)
                   /\ UNCHANGED <<addresses, persons, resource, threads, log>>
        ELSE UNCHANGED vars

GetCourse ==
    /\ resource = "courses"
    /\ \E id \in CourseIds :
        LET r == get_course(courses, id)
        IN /\ courses' = r.store
           /\ Handled("get_course", id, EmptyDict, r, courses)
           /\ UNCHANGED <<addresses, persons, now, issued, resource, threads, log>>

\* t: what utcnow() returns on the path that stamps updated_at.
UpdateCourse ==
    /\ resource = "courses"
    /\ \E id \in CourseIds, u \in CourseUpdateInputs, t \in now..MaxTime :
        LET r == IF CourseUpdate_valid(u)
                 THEN update_course(courses, id, u, t)
                 ELSE Unprocessable(courses)
        IN /\ courses' = r.store
           /\ now' = IF r.store = courses THEN now ELSE t
           /\ Handled("update_course", id, u, r, courses)
           /\ UNCHANGED <<addresses, persons, issued, resource, threads, log>>

DeleteCourse ==
    /\ resource = "courses"
    /\ \E id \in CourseIds :
        LET r == delete_course(courses, id)
        IN /\ courses' = r.store
           /\ Handled("delete_course", id, EmptyDict, r, courses)
           /\ UNCHANGED <<addresses, persons, now, issued, resource, threads, log>>

\* ============================================================ concurrency
\* The handlers are plain `def` functions, which FastAPI runs on the threads
\* of a pool: two requests are handled at the same time by two threads.  The
\* interpreter lock makes one access to a dict (a membership test, a
\* subscript read, a subscript write, a del) atomic and nothing more, so a
\* step of a thread is one such access together with the local computation
\* that follows it.
Workers == 1..NThreads

Idle == [pc |-> "idle", op |-> "none", id |-> 0, arg |-> EmptyDict, local |-> EmptyDict]

\* Requests of a concurrent run: two creations of one address id, a course
\* creation, updates of disjoint fields of one course, and its deletion.
ConcRequests ==
    {[op |-> "create_address", id |-> 1, arg |-> dict_update(a, [id |-> Some(1)])] :
         a \in {addrBoston, addrParis}}
    \cup {[op |-> "create_course", id |-> 0, arg |-> courseCloud]}
    \cup {[op |-> "update_course", id |-> i, arg |-> u] :
              i \in issued["courses"],
              u \in {[title |-> Some(<<"C", "L", "O", "U", "D", "S">>)],
                     [credits |-> Some(6), prerequisites |-> Some(<<>>)]}}
    \cup {[op |-> "delete_course", id |-> i, arg |-> EmptyDict] : i \in issued["courses"]}

Busy == {w \in Workers : threads[w].pc # "idle"}

\* Thread w has answered its request.
Finish(w, status, body) ==
    /\ log' = Append(log, [op |-> threads[w].op, id |-> threads[w].id,
                           arg |-> threads[w].arg, t |-> now,
                           status |-> status, body |-> body])
    /\ threads' = [threads EXCEPT ![w] = Idle]

Goto(w, pc) == threads' = [threads EXCEPT ![w].pc = pc] /\ UNCHANGED log

\* A request arrives and is given to an idle thread.  create_course first
\* builds course_read (uuid4 and utcnow are read here), the others first test
\* the id.
ConcStart ==
    \E w \in Workers, q \in ConcRequests :
        /\ threads[w].pc = "idle"
        /\ Len(log) + Cardinality(Busy) < MaxConcRequests
        /\ IF q.op = "create_course"
           THEN \E id \in uuid4("courses") :
                   /\ issued' = [issued EXCEPT !["courses"] = @ \cup {id}]
                   /\ threads' = [threads EXCEPT ![w] =
                         [pc |-> "write", op |-> q.op, id |-> id, arg |-> q.arg,
                          local |-> create_course(<<>>, q.arg, id, now, now).body[1]]]
           ELSE /\ threads' = [threads EXCEPT ![w] =
                         [pc |-> "check", op |-> q.op, id |-> q.id, arg |-> q.arg,
                          local |-> EmptyDict]]
                /\ UNCHANGED issued
        /\ UNCHANGED <<addresses, persons, courses, now, nwrites, resp, resource, log>>

\* main.py:62  if address.id in addresses: raise HTTPException(400)
CreateAddressCheck ==
    \E w \in Workers :
        /\ threads[w].op = "create_address" /\ threads[w].pc = "check"
        /\ IF Has(addresses, threads[w].id)
           THEN Finish(w, 400, <<>>)
           ELSE Goto(w, "write")
        /\ UNCHANGED <<addresses, persons, courses, now, issued, nwrites, resp, resource>>

\* main.py:64  addresses[address.id] = AddressRead(**address.model_dump())
CreateAddressWrite ==
    \E w \in Workers :
        /\ threads[w].op = "create_address" /\ threads[w].pc = "write"
        /\ addresses' = Put(addresses, threads[w].id, Address_model_dump(threads[w].arg))
        /\ Goto(w, "return")
        /\ UNCHANGED <<persons, courses, now, issued, nwrites, resp, resource>>

\* main.py:65  return addresses[address.id]
CreateAddressReturn ==
    \E w \in Workers :
        /\ threads[w].op = "create_address" /\ threads[w].pc = "return"
        /\ Finish(w, 201, <<Get(addresses, threads[w].id)>>)
        /\ UNCHANGED <<addresses, persons, courses, now, issued, nwrites, resp, resource>>

\* main.py:205-206  courses[course_read.id] = course_read; return course_read
CreateCourseWrite ==
    \E w \in Workers :
        /\ threads[w].op = "create_course" /\ threads[w].pc = "write"
        /\ courses' = Put(courses, threads[w].id, threads[w].local)
        /\ Finish(w, 201, <<threads[w].local>>)
        /\ UNCHANGED <<addresses, persons, now, issued, nwrites, resp, resource>>

\* main.py:227  if course_id not in courses: raise HTTPException(404)
UpdateCourseCheck ==
    \E w \in Workers :
        /\ threads[w].op = "update_course" /\ threads[w].pc = "check"
        /\ IF Has(courses, threads[w].id)
           THEN Goto(w, "read")
           ELSE Finish(w, 404, <<>>)
        /\ UNCHANGED <<addresses, persons, courses, now, issued, nwrites, resp, resource>>

\* main.py:229-233  stored = courses[course_id].model_dump() (a KeyError when
\* the key has gone), then the merge and the stamp, all local.
UpdateCourseRead ==
    \E w \in Workers :
        /\ threads[w].op = "update_course" /\ threads[w].pc = "read"
        /\ IF ~Has(courses, threads[w].id)
           THEN Finish(w, 500, <<>>)
           ELSE LET update_data == CourseUpdate_model_dump(threads[w].arg)
                    merged == dict_update(dict_update(Get(courses, threads[w].id),
                                                      update_data),
                                          [updated_at |-> Some(now)])
                IN IF DOMAIN update_data = {}
                   THEN Goto(w, "return")
                   ELSE IF ~CourseRead_valid(merged)
                        THEN Finish(w, 500, <<>>)
                        ELSE /\ threads' = [threads EXCEPT ![w].pc = "write",
                                                           ![w].local = merged]
                             /\ UNCHANGED log
        /\ UNCHANGED <<addresses, persons, courses, now, issued, nwrites, resp, resource>>

\* main.py:234  courses[course_id] = CourseRead(**stored)
UpdateCourseWrite ==
    \E w \in Workers :
        /\ threads[w].op = "update_course" /\ threads[w].pc = "write"
        /\ courses' = Put(courses, threads[w].id,
                          Restrict(threads[w].local, CourseReadFields))
        /\ Goto(w, "return")
        /\ UNCHANGED <<addresses, persons, now, issued, nwrites, resp, resource>>

\* main.py:235  return courses[course_id] (a KeyError when the key has gone)
UpdateCourseReturn ==
    \E w \in Workers :
        /\ threads[w].op = "update_course" /\ threads[w].pc = "return"
        /\ IF Has(courses, threads[w].id)
           THEN Finish(w, 200, <<Get(courses, threads[w].id)>>)
           ELSE Finish(w, 500, <<>>)
        /\ UNCHANGED <<addresses, persons, courses, now, issued, nwrites, resp, resource>>

\* main.py:244  if course_id not in courses: raise HTTPException(404)
DeleteCourseCheck ==
    \E w \in Workers :
        /\ threads[w].op = "delete_course" /\ threads[w].pc = "check"
        /\ IF Has(courses, threads[w].id)
           THEN Goto(w, "del")
           ELSE Finish(w, 404, <<>>)
        /\ UNCHANGED <<addresses, persons, courses, now, issued, nwrites, resp, resource>>

\* main.py:246  del courses[course_id] (a KeyError when the key has gone)
DeleteCourseDel ==
    \E w \in Workers :
        /\ threads[w].op = "delete_course" /\ threads[w].pc = "del"
        /\ IF Has(courses, threads[w].id)
           THEN courses' = Del(courses, threads[w].id) /\ Finish(w, 204, <<>>)
           ELSE UNCHANGED courses /\ Finish(w, 500, <<>>)
        /\ UNCHANGED <<addresses, persons, now, issued, nwrites, resp, resource>>

NextConc ==
    \/ ConcStart
    \/ CreateAddressCheck
    \/ CreateAddressWrite
    \/ CreateAddressReturn
    \/ CreateCourseWrite
    \/ UpdateCourseCheck
    \/ UpdateCourseRead
    \/ UpdateCourseWrite
    \/ UpdateCourseReturn
    \/ DeleteCourseCheck
    \/ DeleteCourseDel

NoRequest == [op |-> "none", id |-> 0, req |-> EmptyDict, status |-> 0, body |-> <<>>]

Init ==
    /\ addresses = <<>>
    /\ persons = <<>>
    /\ courses = <<>>
    /\ now = 0
    /\ issued = [s \in {"persons", "courses"} |-> {}]
    /\ nwrites = 0
    /\ resp = NoRequest
    /\ resource \in {"addresses", "persons", "courses"}
    /\ threads = [w \in Workers |-> Idle]
    /\ log = <<>>

Next ==
    \/ CreateAddress
    \/ ListAddresses
    \/ GetAddress
    \/ UpdateAddress
    \/ CreatePerson
    \/ ListPersons
    \/ GetPerson
    \/ UpdatePerson
    \/ ListCourses
    \/ CreateCourse
    \/ GetCourse
    \/ UpdateCourse
    \/ DeleteCourse

Spec == Init /\ [][Next]_vars

\* Requests handled concurrently by the threads of the pool.
SpecConc == Init /\ [][NextConc]_vars

\* ================================================================= claims
\* The claims are stated on the handler operators applied in every reachable
\* state to every request of the input sets, and on resp for what a run has
\* actually done.

\* The record get_* returns for id after response r.
Fetched(g) == g.body[1]

\* after is before with the patch merged in: supplied fields hold the patch's
\* value, the fields of keep that the patch omits hold what they held before.
Merged(before, after, patch, keep) ==
    /\ \A f \in DOMAIN patch : f \in DOMAIN after /\ after[f] = patch[f]
    /\ \A f \in keep \ DOMAIN patch :
          f \in DOMAIN before /\ f \in DOMAIN after /\ after[f] = before[f]

\* C1: for Address, Person and Course, after a successful update of an existing
\* id with a patch supplying a non-empty subset of fields, fetching the id
\* returns a record in which every supplied field holds the patch's value and
\* every omitted field (id and created_at included) holds its pre-update value;
\* a supplied prerequisites list replaces the stored one whole.
C1_UpdateMerges ==
    /\ \A id \in Keys(addresses), u \in AddressUpdateInputs :
          LET patch == Restrict(u, AddressUpdateFields)
              r == update_address(addresses, id, u)
              g == get_address(r.store, id)
          IN (AddressUpdate_valid(u) /\ DOMAIN patch # {} /\ r.status = 200)
                => /\ g.status = 200
                   /\ r.body = g.body
                   /\ Merged(Get(addresses, id), Fetched(g), patch, AddressBaseFields)
    /\ \A id \in Keys(persons), u \in PersonUpdateInputs :
          LET patch == Restrict(u, PersonUpdateFields)
              r == update_person(persons, id, u)
              g == get_person(r.store, id)
          IN (PersonUpdate_valid(u) /\ DOMAIN patch # {} /\ r.status = 200)
                => /\ g.status = 200
                   /\ r.body = g.body
                   /\ Merged(Get(persons, id), Fetched(g), patch, PersonReadFields)
    /\ \A id \in Keys(courses), u \in CourseUpdateInputs, t \in now..MaxTime :
          LET patch == Restrict(u, CourseUpdateFields)
              r == update_course(courses, id, u, t)
              g == get_course(r.store, id)
          IN (CourseUpdate_valid(u) /\ DOMAIN patch # {} /\ r.status = 200)
                => /\ g.status = 200
                   /\ r.body = g.body
                   /\ Merged(Get(courses, id), Fetched(g), patch,
                             CourseReadFields \ {"updated_at"})

\* A run has created a course, patched its title, then patched credits and
\* prerequisites: the stored record holds both patches and the created code.
C1_Witness ==
    /\ resp.op = "update_course" /\ resp.status = 200
    /\ DOMAIN resp.req = {"credits", "prerequisites"}
    /\ Has(courses, resp.id)
    /\ Get(courses, resp.id)["credits"] = Some(6)
    /\ Get(courses, resp.id)["prerequisites"] = Some(<<>>)
    /\ Get(courses, resp.id)["title"] = Some(<<"C", "L", "O", "U", "D", "S">>)
    /\ Get(courses, resp.id)["code"] = courseCloud["code"]

\* An integer timestamp of a stored course.
Stamp(c, f) == Unwrap(c[f])

\* C2: for an existing course, update_course with an empty patch returns the
\* stored record and leaves it (updated_at included) unchanged; with a
\* non-empty patch the record's updated_at is afterwards >= what it was, and
\* is the time of the update when the update succeeds.
C2_UpdatedAt ==
    \A id \in Keys(courses), u \in CourseUpdateInputs, t \in now..MaxTime :
        LET patch == Restrict(u, CourseUpdateFields)
            r == update_course(courses, id, u, t)
            before == Get(courses, id)
        IN CourseUpdate_valid(u) =>
              IF DOMAIN patch = {}
              THEN r.status = 200 /\ r.body = <<before>> /\ r.store = courses
              ELSE /\ Has(r.store, id)
                   /\ Stamp(Get(r.store, id), "updated_at") >= Stamp(before, "updated_at")
                   /\ r.status = 200 => Get(r.store, id)["updated_at"] = Some(t)

\* A run has updated a course at a later time than it was created.
C2_Witness ==
    /\ resp.op = "update_course" /\ resp.status = 200
    /\ Has(courses, resp.id)
    /\ Stamp(Get(courses, resp.id), "updated_at") > Stamp(Get(courses, resp.id), "created_at")
    /\ Stamp(Get(courses, resp.id), "updated_at") = now

\* C3: create_address with an id that is already a key of the address store
\* fails with 400 and leaves the address store, and so the record stored under
\* that id, unchanged.
C3_CreateConflict ==
    \A p \in AddressCreateInputs :
        (AddressBase_valid(p) /\ Has(addresses, Unwrap(p["id"])))
            => LET r == create_address(addresses, p)
               IN r.status = 400 /\ r.store = addresses /\ r.body = <<>>

\* An address is stored, and a create request for its id carries other data.
C3_Witness ==
    /\ resp.op = "create_address" /\ resp.status = 201
    /\ \E p \in AddressCreateInputs :
          /\ AddressBase_valid(p)
          /\ Has(addresses, Unwrap(p["id"]))
          /\ Address_model_dump(p) # Get(addresses, Unwrap(p["id"]))
          /\ create_address(addresses, p).status = 400

\* The store gains exactly the key id with record rec; nothing else changes.
GainsOne(before, after, id, rec) ==
    /\ ~Has(before, id)
    /\ Keys(after) = Keys(before) \cup {id}
    /\ Get(after, id) = rec
    /\ \A k \in Keys(before) : Get(after, k) = Get(before, k)

\* C4: in every reachable state, deletes included, create_person and
\* create_course store and return a record whose Base fields equal the
\* payload's and whose id was never issued before in that store; the store
\* gains exactly that key and no existing record is altered.
C4_CreateFresh ==
    /\ Keys(persons) \subseteq issued["persons"]
    /\ Keys(courses) \subseteq issued["courses"]
    /\ \A p \in PersonCreateInputs, id \in uuid4("persons") :
          PersonCreate_valid(p) =>
             LET r == create_person(persons, p, id)
             IN /\ r.status = 201
                /\ id \notin issued["persons"]
                /\ GainsOne(persons, r.store, id, r.body[1])
                /\ r.body[1]["id"] = Some(id)
                /\ \A f \in DOMAIN p : r.body[1][f] = p[f]
                /\ DOMAIN r.body[1] = PersonReadFields
    /\ \A p \in CourseCreateInputs, id \in uuid4("courses"), t1, t2 \in now..MaxTime :
          CourseBase_valid(p) =>
             LET r == create_course(courses, p, id, t1, t2)
             IN /\ r.status = 201
                /\ r.body[1]["created_at"] = Some(t1)
                /\ r.body[1]["updated_at"] = Some(t2)
                /\ id \notin issued["courses"]
                /\ GainsOne(courses, r.store, id, r.body[1])
                /\ r.body[1]["id"] = Some(id)
                /\ \A f \in DOMAIN p : r.body[1][f] = p[f]
                /\ DOMAIN r.body[1] = CourseReadFields

\* A run has created a course after deleting one: the new id is not the
\* deleted one.
C4_Witness ==
    /\ resp.op = "create_course" /\ resp.status = 201
    /\ Keys(courses) = {resp.id}
    /\ issued["courses"] \ Keys(courses) # {}
    /\ Restrict(Get(courses, resp.id), DOMAIN resp.req) = resp.req

\* C5: after delete_course succeeds for an id, get_course and a second
\* delete_course on that id fail with 404, and every other course is unchanged.
C5_DeleteThenNotFound ==
    /\ \A id \in Keys(courses) :
          LET r == delete_course(courses, id)
          IN /\ r.status = 204
             /\ get_course(r.store, id).status = 404
             /\ delete_course(r.store, id).status = 404
             /\ delete_course(r.store, id).store = r.store
             /\ Keys(r.store) = Keys(courses) \ {id}
             /\ \A k \in Keys(r.store) : Get(r.store, k) = Get(courses, k)
    /\ \A id \in issued["courses"] \ Keys(courses) :
          /\ get_course(courses, id).status = 404
          /\ delete_course(courses, id).status = 404

\* A run has deleted one of two courses; the other is still stored.
C5_Witness ==
    /\ resp.op = "delete_course" /\ resp.status = 204
    /\ ~Has(courses, resp.id)
    /\ resp.id \in issued["courses"]
    /\ courses # <<>>
    /\ get_course(courses, resp.id).status = 404

\* Response r is NotFound and leaves the store as it was.
NotFound(r, store) == r.status = 404 /\ r.body = <<>> /\ r.store = store

\* C6: get, update and delete on an id that is not a key of the store fail
\* with 404 and change nothing: the handler returns the store as it was, and
\* no step leaves a store changed with another response than 200, 201 or 204
\* to a request for that store.
C6_NotFoundNoChange ==
    /\ \A id \in AddressIds \ Keys(addresses) :
          /\ NotFound(get_address(addresses, id), addresses)
          /\ \A u \in AddressUpdateInputs :
                NotFound(update_address(addresses, id, u), addresses)
    /\ \A id \in PersonIds \ Keys(persons) :
          /\ NotFound(get_person(persons, id), persons)
          /\ \A u \in PersonUpdateInputs :
                NotFound(update_person(persons, id, u), persons)
    /\ \A id \in CourseIds \ Keys(courses) :
          /\ NotFound(get_course(courses, id), courses)
          /\ NotFound(delete_course(courses, id), courses)
          /\ \A u \in CourseUpdateInputs, t \in now..MaxTime :
                CourseUpdate_valid(u) =>
                    NotFound(update_course(courses, id, u, t), courses)
    /\ resp.status \in {0, 200, 201, 204}

\* A run has deleted a course while another is stored: requests for the
\* deleted id are answered 404.
C6_Witness ==
    /\ resp.op = "delete_course"
    /\ courses # <<>>
    /\ \E u \in CourseUpdateInputs :
          /\ DOMAIN Restrict(u, CourseUpdateFields) # {}
          /\ CourseUpdate_valid(u)
          /\ update_course(courses, resp.id, u, now).status = 404

\* Filter sets A and B give no two different values for one parameter.
Compatible(A, B) ==
    \A k \in DOMAIN A : IsNone(A[k]) \/ IsNone(B[k]) \/ A[k] = B[k]

\* The filters of A and B together.
Together(A, B) == [k \in DOMAIN A |-> IF IsNone(A[k]) THEN B[k] ELSE A[k]]

\* The records of xs that are also in ys, in the order of xs.
Intersection(xs, ys) ==
    SelectSeq(xs, LAMBDA x : \E i \in 1..Len(ys) : ys[i] = x)

\* C7: for list_addresses, list_persons and list_courses and any two filter
\* sets A and B (giving no two values for one parameter), listing with the
\* filters of A and B together returns the intersection of listing with A and
\* listing with B; listing with no filter returns every stored record.
C7_FiltersIntersect ==
    /\ list_addresses(addresses, NoAddressFilter).body = Values(addresses)
    /\ list_persons(persons, NoPersonFilter).body = Values(persons)
    /\ list_courses(courses, NoCourseFilter).body = Values(courses)
    /\ \A A, B \in AddressQueries :
          Compatible(A, B) =>
              list_addresses(addresses, Together(A, B)).body
                  = Intersection(list_addresses(addresses, A).body,
                                 list_addresses(addresses, B).body)
    /\ \A A, B \in PersonQueries :
          Compatible(A, B) =>
              list_persons(persons, Together(A, B)).body
                  = Intersection(list_persons(persons, A).body,
                                 list_persons(persons, B).body)
    /\ \A A, B \in CourseQueries :
          Compatible(A, B) =>
              list_courses(courses, Together(A, B)).body
                  = Intersection(list_courses(courses, A).body,
                                 list_courses(courses, B).body)

\* Two courses are stored; one filter set keeps both, another keeps one, and
\* together they keep that one.
C7_Witness ==
    /\ Len(courses) = 2
    /\ \E A, B \in CourseQueries :
          /\ Compatible(A, B) /\ A # NoCourseFilter /\ B # NoCourseFilter
          /\ Len(list_courses(courses, A).body) = 2
          /\ Len(list_courses(courses, B).body) = 1
          /\ list_courses(courses, Together(A, B)).body = list_courses(courses, B).body

Cities == {"Boston", "Paris", "New York", "Rome"}

\* Person x has an embedded address whose city is c.
LivesIn(x, c) ==
    \E i \in 1..Len(Unwrap(x["addresses"])) :
        Unwrap(x["addresses"])[i]["city"] = Some(c)

\* C8: list_persons with city = c returns exactly the stored persons that have
\* at least one embedded address whose city is c.
C8_CityFilter ==
    \A c \in Cities :
        list_persons(persons, [NoPersonFilter EXCEPT !["city"] = Some(c)]).body
            = SelectSeq(Values(persons), LAMBDA x : LivesIn(x, c))

\* Stored: a person with the addresses Paris and Boston, in that order, and a
\* person with no address; city = Boston lists the first alone.
C8_Witness ==
    /\ Len(persons) = 2
    /\ \E i, j \in 1..2 :
          /\ Unwrap(persons[i][2]["addresses"]) = <<addrParis, addrBoston>>
          /\ Unwrap(persons[j][2]["addresses"]) = <<>>
          /\ list_persons(persons, [NoPersonFilter EXCEPT !["city"] = Some("Boston")]).body
                = <<persons[i][2]>>

\* C10 (as claimed): for an existing course id, every patch that passes
\* CourseUpdate validation is applied and answered 200, also when it supplies
\* an explicit None.
C10_ValidPatchApplied ==
    \A id \in Keys(courses), u \in CourseUpdateInputs, t \in now..MaxTime :
        CourseUpdate_valid(u) =>
            LET patch == Restrict(u, CourseUpdateFields)
                r == update_course(courses, id, u, t)
            IN /\ r.status = 200
               /\ \A f \in DOMAIN patch : Get(r.store, id)[f] = patch[f]

\* The stores after request e of the log is handled alone, as one step, and
\* the response it then gets.
Alone(st, e) ==
    CASE e.op = "create_address" ->
            LET r == create_address(st.a, e.arg)
            IN [a |-> r.store, c |-> st.c, status |-> r.status, body |-> r.body]
      [] e.op = "create_course" ->
            LET r == create_course(st.c, e.arg, e.id, e.t, e.t)
            IN [a |-> st.a, c |-> r.store, status |-> r.status, body |-> r.body]
      [] e.op = "update_course" ->
            LET r == update_course(st.c, e.id, e.arg, e.t)
            IN [a |-> st.a, c |-> r.store, status |-> r.status, body |-> r.body]
      [] e.op = "delete_course" ->
            LET r == delete_course(st.c, e.id)
            IN [a |-> st.a, c |-> r.store, status |-> r.status, body |-> r.body]

\* Some order of the logged requests numbered in rest, handled one at a time
\* from the stores st, gives each the response it got and ends in the stores
\* as they are now.
RECURSIVE Serial(_, _)
Serial(st, rest) ==
    IF rest = {}
    THEN st.a = addresses /\ st.c = courses
    ELSE \E i \in rest :
            LET r == Alone(st, log[i])
            IN /\ r.status = log[i].status
               /\ r.body = log[i].body
               /\ Serial([a |-> r.a, c |-> r.c], rest \ {i})

\* C9 (as claimed): when requests are handled concurrently, the responses and
\* the final stores are those of some serial order of the same requests (so
\* two create_address calls with one id never both succeed, an update
\* concurrent with a delete neither re-inserts the course nor fails with
\* anything but 404, and concurrent updates of disjoint fields lose neither).
C9_Serializable ==
    Busy = {} => Serial([a |-> <<>>, c |-> <<>>], 1..Len(log))

\* What a course record may hold in field f, as the Base constraints put it.
Within(f, x) ==
    /\ f \in CourseRequired \cup {"prerequisites"} => ~IsNone(x)
    /\ f = "code" /\ ~IsNone(x) => CourseCodeType(Unwrap(x))
    /\ f = "credits" /\ ~IsNone(x) => Unwrap(x) \in 0..6
    /\ f = "year" /\ ~IsNone(x) => Unwrap(x) \in 2020..2030
    /\ f = "max_enrollment" /\ ~IsNone(x) => Unwrap(x) >= 1
    /\ f = "level" /\ ~IsNone(x) =>
          Unwrap(x) \in {"undergraduate", "graduate", "doctoral"}
    /\ f = "term" /\ ~IsNone(x) => Unwrap(x) \in {"spring", "summer", "fall"}

\* A stored course record within all Base constraints.
WithinBase(c) ==
    /\ CourseRequired \cup {"max_enrollment", "prerequisites"} \subseteq DOMAIN c
    /\ \A f \in DOMAIN c : Within(f, c[f])

\* A request body that violates a Base constraint: a supplied value outside
\* its constraint, or (for a create) a required field left out.
Violates(op, req) ==
    \/ op = "create_course" /\ ~(CourseRequired \subseteq DOMAIN req)
    \/ \E f \in DOMAIN req : ~Within(f, req[f])

\* C11: in every state reachable by create_course, update_course and
\* delete_course requests, valid or not, every stored course record is within
\* the Base constraints (credits in 0..6, year in 2020..2030, max_enrollment
\* null or at least 1, level and term among their literals, no required field
\* null); the store only ever changes by a request that violates no
\* constraint, which stores the values it supplied and not clamped ones, and
\* an update whose patch violates a constraint leaves the store as it was.
C11_BaseConstraints ==
    /\ \A i \in 1..Len(courses) : WithinBase(courses[i][2])
    /\ resp.op \in {"create_course", "update_course"} =>
          /\ ~Violates(resp.op, resp.req)
          /\ \A f \in (DOMAIN resp.req) \cap CourseUpdateFields :
                resp.body[1][f] = resp.req[f]
    /\ \A id \in Keys(courses), u \in CourseUpdateInputs, t \in now..MaxTime :
          Violates("update_course", u) /\ CourseUpdate_valid(u) =>
             update_course(courses, id, u, t).store = courses

\* C11 witness: a stored course brought to the upper bounds (credits 6, year
\* 2030) by updates, in a state where creates and updates that violate a
\* constraint are among the requests.
C11_Witness ==
    /\ resp.op = "update_course"
    /\ \E i \in 1..Len(courses) :
          /\ courses[i][2]["credits"] = Some(6)
          /\ courses[i][2]["year"] = Some(2030)
    /\ \E p \in CourseCreateInputs : Violates("create_course", p)
    /\ \E u \in CourseUpdateInputs :
          Violates("update_course", u) /\ CourseUpdate_valid(u)
    /\ \E u \in CourseUpdateInputs :
          Violates("update_course", u) /\ ~CourseUpdate_valid(u)

====
